---- MODULE Spec2Model ----
(***************************************************************************)
(* Model of the in-memory message service (Fastify CRUD over a Map).       *)
(*                                                                         *)
(* State: the Map `messages` (insertion ordered, key -> Message) and the   *)
(* counter `idCounter`, together with the wall clock the handlers read.    *)
(* Every handler is an async function that contains no await, so a handler *)
(* runs from its first statement to its return as one step of the event    *)
(* loop.  The request body is whatever the client sent: nothing, null, or  *)
(* a JSON object whose `content` member may be missing or of any JSON      *)
(* type (the handlers' Body type is not enforced at run time).  The clock  *)
(* is the process' wall clock, taken to be non-decreasing.                 *)
(*                                                                         *)
(* Strings are sequences of one-character strings, so that trim(), the     *)
(* template literal of the id and toISOString() are computed, not assumed. *)
(* A character outside ASCII, or without an escape, is written as the      *)
(* token of its code unit, "U+00A0".                                       *)
(***************************************************************************)
EXTENDS Integers, Sequences, FiniteSets

VARIABLES messages, idCounter, clock, last, issued, deleted, nDeleted, inflight,
          written

vars == <<messages, idCounter, clock, last, issued, deleted, nDeleted, inflight,
          written>>

-----------------------------------------------------------------------------
(* Bounds of the model *)

\* the clock value (ms since the epoch) at process start
StartMs == 9
\* the number of milliseconds the clock may advance during a run
MaxTicks == 1
\* the number of successful creates explored
MaxCreates == 2
\* the number of requests that may be waiting for dispatch at once
MaxInflight == 3

-----------------------------------------------------------------------------
(* JavaScript values that can arrive as body.content *)

Undefined == [t |-> "undefined", n |-> 0, s |-> <<>>]
Num(k) == [t |-> "number", n |-> k, s |-> <<>>]
Str(chars) == [t |-> "string", n |-> 0, s |-> chars]

\* request.body: undefined when the request carries no payload, null for
\* the JSON payload null, otherwise an object with its content member
\* (Undefined when the object has none)
NoBody == [t |-> "undefined", content |-> Undefined]
NullBody == [t |-> "null", content |-> Undefined]
Obj(content) == [t |-> "object", content |-> content]

\* const { content } = request.body throws a TypeError on undefined and null
Destructurable(body) == body.t \notin {"undefined", "null"}

\* ToBoolean: undefined, 0 and "" are falsy
Truthy(v) ==
    CASE v.t = "undefined" -> FALSE
      [] v.t = "number" -> v.n # 0
      [] v.t = "string" -> Len(v.s) > 0

TypeOf(v) == v.t

\* the code units String.prototype.trim strips: WhiteSpace and
\* LineTerminator of ECMAScript (U+0009..U+000D, U+0020, U+00A0, U+1680,
\* U+2000..U+200A, U+2028, U+2029, U+202F, U+205F, U+3000, U+FEFF)
WhiteSpace ==
    { "\t", "\n", "U+000B", "\f", "\r", " ", "U+00A0", "U+1680",
      "U+2000", "U+2001", "U+2002", "U+2003", "U+2004", "U+2005", "U+2006",
      "U+2007", "U+2008", "U+2009", "U+200A", "U+2028", "U+2029", "U+202F",
      "U+205F", "U+3000", "U+FEFF" }

RECURSIVE TrimStart(_)
TrimStart(s) ==
    IF s # <<>> /\ Head(s) \in WhiteSpace THEN TrimStart(Tail(s)) ELSE s

RECURSIVE TrimEnd(_)
TrimEnd(s) ==
    IF s # <<>> /\ s[Len(s)] \in WhiteSpace
    THEN TrimEnd(SubSeq(s, 1, Len(s) - 1))
    ELSE s

\* String.prototype.trim
Trim(s) == TrimEnd(TrimStart(s))

\* variant: the blank check is forgotten
InvalidNoTrim(content) == ~Truthy(content) \/ TypeOf(content) # "string"

\* variant: only the truthiness of content is tested
InvalidTruthyOnly(content) == ~Truthy(content)

\* the guard of POST /messages and PUT /messages/:id, true when the request
\* is rejected with 400
Invalid(content) ==
    \/ ~Truthy(content)
    \/ TypeOf(content) # "string"
    \/ Trim(content.s) = <<>>

-----------------------------------------------------------------------------
(* Number and date formatting *)

Digits == <<"0", "1", "2", "3", "4", "5", "6", "7", "8", "9">>

\* Number::toString of a non-negative integer, as a template literal does it
RECURSIVE NumToString(_)
NumToString(k) ==
    IF k < 10 THEN <<Digits[k + 1]>>
    ELSE NumToString(k \div 10) \o <<Digits[(k % 10) + 1]>>

\* the decimal digits of k, zero padded on the left to width w
RECURSIVE Pad(_, _)
Pad(k, w) ==
    IF w = 0 THEN <<>> ELSE Pad(k \div 10, w - 1) \o <<Digits[(k % 10) + 1]>>

\* variant: seconds and milliseconds are printed without zero padding
IsoNoPad(ms) ==
    <<"1970-01-01T00:">>
    \o Pad((ms \div 60000) % 60, 2) \o <<":">>
    \o NumToString((ms \div 1000) % 60) \o <<".">> \o NumToString(ms % 1000) \o <<"Z">>

\* variant: the milliseconds are dropped
IsoWholeSeconds(ms) ==
    <<"1970-01-01T00:">>
    \o Pad((ms \div 60000) % 60, 2) \o <<":">>
    \o Pad((ms \div 1000) % 60, 2) \o <<"Z">>

\* Date.prototype.toISOString, for instants within the first hour of the epoch;
\* the date and hour, which do not vary, are kept as one token
ToISOString(ms) ==
    <<"1970-01-01T00:">>
    \o Pad((ms \div 60000) % 60, 2) \o <<":">>
    \o Pad((ms \div 1000) % 60, 2) \o <<".">> \o Pad(ms % 1000, 3) \o <<"Z">>

\* variant: the id is the clock value alone
GenIdNoCounter(now, counter) == NumToString(now)

\* `${Date.now()}-${idCounter++}`
GenId(now, counter) == NumToString(now) \o <<"-">> \o NumToString(counter)

-----------------------------------------------------------------------------
(* The Map: a sequence of entries [key, value] in insertion order *)

Keys(m) == {m[i].key : i \in 1..Len(m)}

MapHas(m, k) == k \in Keys(m)

\* Map.prototype.get, for a key that is present
MapGet(m, k) == m[CHOOSE i \in 1..Len(m) : m[i].key = k].value

\* variant: a new key is inserted in front of the others
MapSetPrepend(m, k, v) ==
    IF MapHas(m, k)
    THEN [i \in 1..Len(m) |-> IF m[i].key = k THEN [key |-> k, value |-> v] ELSE m[i]]
    ELSE <<[key |-> k, value |-> v]>> \o m

\* variant: setting an existing key moves its entry to the end
MapSetMoveToEnd(m, k, v) ==
    Append(SelectSeq(m, LAMBDA e : e.key # k), [key |-> k, value |-> v])

\* Map.prototype.set: an existing key keeps its position
MapSet(m, k, v) ==
    IF MapHas(m, k)
    THEN [i \in 1..Len(m) |-> IF m[i].key = k THEN [key |-> k, value |-> v] ELSE m[i]]
    ELSE Append(m, [key |-> k, value |-> v])

\* variant: the entry and every entry inserted after it are removed
RECURSIVE MapDeleteFrom(_, _)
MapDeleteFrom(m, k) ==
    IF m = <<>> THEN <<>>
    ELSE IF Head(m).key = k THEN <<>>
    ELSE <<Head(m)>> \o MapDeleteFrom(Tail(m), k)

RECURSIVE MapDelete(_, _)
\* Map.prototype.delete
MapDelete(m, k) ==
    IF m = <<>> THEN <<>>
    ELSE IF Head(m).key = k THEN MapDelete(Tail(m), k)
    ELSE <<Head(m)>> \o MapDelete(Tail(m), k)

\* Array.from(messages.values())
Values(m) == [i \in 1..Len(m) |-> m[i].value]

-----------------------------------------------------------------------------
(* Replies *)

ValidationError == <<"Content is required and must be a non-empty string">>
NotFoundError == <<"Message not found">>

ErrorBody(text) == [kind |-> "error", error |-> text, items |-> <<>>]
MessageBody(message) == [kind |-> "message", error |-> <<>>, items |-> <<message>>]
ListBody(list) == [kind |-> "list", error |-> <<>>, items |-> list]
EmptyBody == [kind |-> "empty", error |-> <<>>, items |-> <<>>]
HelloBody == [kind |-> "hello", error |-> <<>>, items |-> <<>>]

ThrownBody ==
    [kind |-> "thrown",
     error |-> <<"TypeError: Cannot destructure property 'content' of 'request.body'">>,
     items |-> <<>>]

\* what a handler leaves behind: the Map, the counter, the status code and
\* the returned body
Outcome(m, c, code, body) ==
    [messages |-> m, idCounter |-> c, code |-> code, body |-> body]

\* the handler throws: its promise rejects before reply.code is called and
\* before anything is written; the framework answers a rejected handler
\* with status 500
Thrown(m, c) == Outcome(m, c, 500, ThrownBody)

-----------------------------------------------------------------------------
(* The handlers, as functions of the state and the request.  `body` is    *)
(* request.body, `now` is the value Date.now() returns, `stamp` the        *)
(* instant of new Date().                                                  *)

\* variant: the counter is read but not advanced
NextCounterStuck(c) == c

\* idCounter++ : the value of idCounter afterwards
NextCounter(c) == c + 1

\* variant: the content is stored trimmed
NewMessageTrimmed(id, content, timestamp) ==
    [id |-> id, content |-> [content EXCEPT !.s = Trim(content.s)],
     createdAt |-> timestamp, updatedAt |-> timestamp]

\* the object literal of POST /messages
NewMessage(id, content, timestamp) ==
    [id |-> id, content |-> content, createdAt |-> timestamp, updatedAt |-> timestamp]

\* variant: createdAt and updatedAt come from two readings of the clock
CreateHandlerTwoStamps(m, c, body, now, stamp) ==
    LET content == body.content IN
    IF ~Destructurable(body) THEN Thrown(m, c) ELSE
    IF Invalid(content)
    THEN Outcome(m, c, 400, ErrorBody(ValidationError))
    ELSE LET id == GenId(now, c)
             message == [NewMessage(id, content, ToISOString(now))
                             EXCEPT !.updatedAt = ToISOString(stamp)]
         IN  Outcome(MapSet(m, id, message), NextCounter(c), 201, MessageBody(message))

\* variant: the entry is stored under the counter alone
CreateHandlerKeyedByCounter(m, c, body, now, stamp) ==
    LET content == body.content IN
    IF ~Destructurable(body) THEN Thrown(m, c) ELSE
    IF Invalid(content)
    THEN Outcome(m, c, 400, ErrorBody(ValidationError))
    ELSE LET id == GenId(now, c)
             message == NewMessage(id, content, ToISOString(stamp))
         IN  Outcome(MapSet(m, NumToString(c), message), NextCounter(c), 201,
                     MessageBody(message))

\* variant: the id is generated, and the counter advanced, before the
\* content is validated
CreateHandlerCountsFailures(m, c, body, now, stamp) ==
    LET content == body.content IN
    IF ~Destructurable(body) THEN Thrown(m, c) ELSE
    IF Invalid(content)
    THEN Outcome(m, NextCounter(c), 400, ErrorBody(ValidationError))
    ELSE LET id == GenId(now, c)
             message == NewMessage(id, content, ToISOString(stamp))
         IN  Outcome(MapSet(m, id, message), NextCounter(c), 201, MessageBody(message))

\* POST /messages
CreateHandler(m, c, body, now, stamp) ==
    LET content == body.content IN
    IF ~Destructurable(body) THEN Thrown(m, c) ELSE
    IF Invalid(content)
    THEN Outcome(m, c, 400, ErrorBody(ValidationError))
    ELSE LET id == GenId(now, c)
             timestamp == ToISOString(stamp)
             message == NewMessage(id, content, timestamp)
         IN  Outcome(MapSet(m, id, message), NextCounter(c), 201, MessageBody(message))

\* GET /messages
ListHandler(m, c) == Outcome(m, c, 200, ListBody(Values(m)))

\* GET /messages/:id
GetHandler(m, c, id) ==
    IF ~MapHas(m, id)
    THEN Outcome(m, c, 404, ErrorBody(NotFoundError))
    ELSE Outcome(m, c, 200, MessageBody(MapGet(m, id)))

\* variant: createdAt is refreshed along with updatedAt
UpdatedMessageTouchesCreated(message, content, timestamp) ==
    [message EXCEPT !.content = content, !.createdAt = timestamp,
                    !.updatedAt = timestamp]

\* { ...message, content, updatedAt: new Date().toISOString() }
UpdatedMessage(message, content, timestamp) ==
    [message EXCEPT !.content = content, !.updatedAt = timestamp]

\* variant: the target is looked up before the content is validated
UpdateHandlerLookupFirst(m, c, id, body, stamp) ==
    LET content == body.content IN
    IF ~Destructurable(body) THEN Thrown(m, c) ELSE
    IF ~MapHas(m, id)
    THEN Outcome(m, c, 404, ErrorBody(NotFoundError))
    ELSE IF Invalid(content)
    THEN Outcome(m, c, 400, ErrorBody(ValidationError))
    ELSE LET updatedMessage == UpdatedMessage(MapGet(m, id), content, ToISOString(stamp))
         IN  Outcome(MapSet(m, id, updatedMessage), c, 200, MessageBody(updatedMessage))

\* variant: the message is stored before the content is validated
UpdateHandlerWriteFirst(m, c, id, body, stamp) ==
    LET content == body.content IN
    IF ~Destructurable(body) THEN Thrown(m, c) ELSE
    IF ~MapHas(m, id)
    THEN IF Invalid(content)
         THEN Outcome(m, c, 400, ErrorBody(ValidationError))
         ELSE Outcome(m, c, 404, ErrorBody(NotFoundError))
    ELSE LET updatedMessage == UpdatedMessage(MapGet(m, id), content, ToISOString(stamp))
         IN  IF Invalid(content)
             THEN Outcome(MapSet(m, id, updatedMessage), c, 400, ErrorBody(ValidationError))
             ELSE Outcome(MapSet(m, id, updatedMessage), c, 200, MessageBody(updatedMessage))

\* variant: the updated message is returned but not stored
UpdateHandlerNoStore(m, c, id, body, stamp) ==
    LET content == body.content IN
    IF ~Destructurable(body) THEN Thrown(m, c) ELSE
    IF Invalid(content)
    THEN Outcome(m, c, 400, ErrorBody(ValidationError))
    ELSE IF ~MapHas(m, id)
    THEN Outcome(m, c, 404, ErrorBody(NotFoundError))
    ELSE Outcome(m, c, 200,
                 MessageBody(UpdatedMessage(MapGet(m, id), content, ToISOString(stamp))))

\* PUT /messages/:id
UpdateHandler(m, c, id, body, stamp) ==
    LET content == body.content IN
    IF ~Destructurable(body) THEN Thrown(m, c) ELSE
    IF Invalid(content)
    THEN Outcome(m, c, 400, ErrorBody(ValidationError))
    ELSE IF ~MapHas(m, id)
    THEN Outcome(m, c, 404, ErrorBody(NotFoundError))
    ELSE LET message == MapGet(m, id)
             updatedMessage == UpdatedMessage(message, content, ToISOString(stamp))
         IN  Outcome(MapSet(m, id, updatedMessage), c, 200, MessageBody(updatedMessage))

\* variant: 204 is answered but the entry is left in the Map
DeleteHandlerNoRemove(m, c, id) ==
    IF ~MapHas(m, id)
    THEN Outcome(m, c, 404, ErrorBody(NotFoundError))
    ELSE Outcome(m, c, 204, EmptyBody)

\* DELETE /messages/:id
DeleteHandler(m, c, id) ==
    IF ~MapHas(m, id)
    THEN Outcome(m, c, 404, ErrorBody(NotFoundError))
    ELSE Outcome(MapDelete(m, id), c, 204, EmptyBody)

\* GET /
RootHandler(m, c) == Outcome(m, c, 200, HelloBody)

-----------------------------------------------------------------------------
(* Requests *)

\* body.content: missing, a number, and strings that are empty, blank,
\* plain, and padded with white space
Contents ==
    { Undefined, Num(7), Str(<<>>), Str(<<" ", "\r", "U+00A0">>),
      Str(<<"a">>), Str(<<" ", "b", " ">>) }

\* request.body of a POST or PUT: no payload, null, or an object
Payloads == {NoBody, NullBody} \cup {Obj(c) : c \in Contents}

Nonexistent == <<"n", "o", "n", "e", "x", "i", "s", "t", "e", "n", "t">>

IssuedIds == {issued[i].id : i \in 1..Len(issued)}

\* the :id path parameters tried: every id a create has returned, and one
\* that no create returns
PathIds == IssuedIds \cup {Nonexistent}

NoId == <<>>

Request(op, id, payload) == [op |-> op, id |-> id, payload |-> payload]

\* the requests that race on a message: updates with accepted content, and
\* deletes, of an id some create has returned
RaceRequests ==
    {Request("update", i, Obj(c)) : i \in IssuedIds, c \in {c \in Contents : ~Invalid(c)}}
    \cup {Request("delete", i, NoBody) : i \in IssuedIds}

\* the instants the clock can show from now on
Later(from) == from..(StartMs + MaxTicks)

-----------------------------------------------------------------------------
(* State after construction *)

Init ==
    /\ messages = <<>>
    /\ idCounter = 0
    /\ clock = StartMs
    /\ last = [op |-> "none", id |-> NoId, payload |-> NoBody, content |-> Undefined,
               code |-> 0, body |-> EmptyBody]
    /\ issued = <<>>
    /\ deleted = {}
    /\ nDeleted = 0
    /\ inflight = {}
    /\ written = {}

\* the reply to request r with outcome o; content is the content member
\* of the request's body (Undefined when there is none)
Reply(r, o) ==
    [op |-> r.op, id |-> r.id, payload |-> r.payload, content |-> r.payload.content,
     code |-> o.code, body |-> o.body]

\* The clock is read only on a handler's success path; a run that returns
\* early reads nothing and is given the instant already seen.  A create
\* reads twice: Date.now() for the id, then new Date() for the timestamp.
CreateReads(r) ==
    IF ~Destructurable(r.payload) \/ Invalid(r.payload.content)
    THEN {<<clock, clock>>}
    ELSE {rd \in Later(clock) \X Later(clock) : rd[1] <= rd[2]}

UpdateReads(r) ==
    IF ~Destructurable(r.payload) \/ Invalid(r.payload.content) \/ ~MapHas(messages, r.id)
    THEN {clock}
    ELSE Later(clock)

-----------------------------------------------------------------------------
(* One step per handler run.  The history variables issued, deleted and    *)
(* nDeleted record the successful creates and deletes; written holds, for  *)
(* every id created and not deleted since, the message most recently       *)
(* returned for it by a create (201) or an update (200).                   *)

Rewritten(w, message) == {x \in w : x.id # message.id} \cup {message}

RunCreate(r) ==
    \E rd \in CreateReads(r) :
        \E o \in {CreateHandler(messages, idCounter, r.payload, rd[1], rd[2])} :
        /\ o.code = 201 => idCounter < MaxCreates
        /\ messages' = o.messages
        /\ idCounter' = o.idCounter
        /\ last' = Reply(r, o)
        /\ clock' = IF o.code = 201 THEN rd[2] ELSE clock
        /\ issued' = IF o.code = 201
                     THEN Append(issued, [id |-> o.body.items[1].id,
                                          createdAt |-> o.body.items[1].createdAt,
                                          now |-> rd[1]])
                     ELSE issued
        /\ written' = IF o.code = 201 THEN Rewritten(written, o.body.items[1])
                      ELSE written
        /\ UNCHANGED <<deleted, nDeleted>>

RunList(r) ==
    \E o \in {ListHandler(messages, idCounter)} :
    /\ messages' = o.messages
    /\ idCounter' = o.idCounter
    /\ last' = Reply(r, o)
    /\ UNCHANGED <<clock, issued, deleted, nDeleted, written>>

RunGet(r) ==
    \E o \in {GetHandler(messages, idCounter, r.id)} :
    /\ messages' = o.messages
    /\ idCounter' = o.idCounter
    /\ last' = Reply(r, o)
    /\ UNCHANGED <<clock, issued, deleted, nDeleted, written>>

\* variant: the handler is suspended between messages.get and messages.set;
\* a delete that runs in the gap is overwritten by the resumed update
RunUpdateSuspended(r) ==
    \E stamp \in Later(clock) :
        \E o \in {IF r.id \in deleted /\ ~Invalid(r.payload.content)
                  THEN LET i == CHOOSE i \in 1..Len(issued) : issued[i].id = r.id
                           message == [id |-> r.id, content |-> r.payload.content,
                                       createdAt |-> issued[i].createdAt,
                                       updatedAt |-> ToISOString(stamp)]
                       IN  Outcome(MapSet(messages, r.id, message), idCounter, 200,
                                   MessageBody(message))
                  ELSE UpdateHandler(messages, idCounter, r.id, r.payload, stamp)} :
        /\ messages' = o.messages
        /\ idCounter' = o.idCounter
        /\ last' = Reply(r, o)
        /\ clock' = IF o.code = 200 THEN stamp ELSE clock
        /\ written' = IF o.code = 200 THEN Rewritten(written, o.body.items[1])
                      ELSE written
        /\ UNCHANGED <<issued, deleted, nDeleted>>

RunUpdate(r) ==
    \E stamp \in UpdateReads(r) :
        \E o \in {UpdateHandler(messages, idCounter, r.id, r.payload, stamp)} :
        /\ messages' = o.messages
        /\ idCounter' = o.idCounter
        /\ last' = Reply(r, o)
        /\ clock' = IF o.code = 200 THEN stamp ELSE clock
        /\ written' = IF o.code = 200 THEN Rewritten(written, o.body.items[1])
                      ELSE written
        /\ UNCHANGED <<issued, deleted, nDeleted>>

RunDelete(r) ==
    \E o \in {DeleteHandler(messages, idCounter, r.id)} :
    /\ messages' = o.messages
    /\ idCounter' = o.idCounter
    /\ last' = Reply(r, o)
    /\ deleted' = IF o.code = 204 THEN deleted \cup {r.id} ELSE deleted
    /\ nDeleted' = IF o.code = 204 THEN nDeleted + 1 ELSE nDeleted
    /\ written' = IF o.code = 204 THEN {x \in written : x.id # r.id} ELSE written
    /\ UNCHANGED <<clock, issued>>

RunRoot ==
    \E o \in {RootHandler(messages, idCounter)} :
    /\ messages' = o.messages
    /\ idCounter' = o.idCounter
    /\ last' = Reply(Request("root", NoId, NoBody), o)
    /\ UNCHANGED <<clock, issued, deleted, nDeleted, written>>

-----------------------------------------------------------------------------
(* Requests served one after the other *)

PostMessages ==
    \E b \in Payloads : RunCreate(Request("create", NoId, b)) /\ UNCHANGED inflight

GetMessages == RunList(Request("list", NoId, NoBody)) /\ UNCHANGED inflight

GetMessage ==
    \E i \in PathIds : RunGet(Request("get", i, NoBody)) /\ UNCHANGED inflight

PutMessage ==
    \E i \in PathIds : \E b \in Payloads :
        RunUpdate(Request("update", i, b)) /\ UNCHANGED inflight

DeleteMessage ==
    \E i \in PathIds : RunDelete(Request("delete", i, NoBody)) /\ UNCHANGED inflight

GetRoot == RunRoot /\ UNCHANGED inflight

Next ==
    \/ PostMessages
    \/ GetMessages
    \/ GetMessage
    \/ PutMessage
    \/ DeleteMessage
    \/ GetRoot

Spec == Init /\ [][Next]_vars

-----------------------------------------------------------------------------
(* Requests on one id that are in flight together.  The server accepts a   *)
(* request (Receive) and the event loop later runs its handler (Dispatch), *)
(* in any order; the handler itself has no await and runs in one step.     *)

Receive ==
    \E r \in RaceRequests :
        /\ Cardinality(inflight) < MaxInflight
        /\ r \notin inflight
        /\ \A q \in inflight : q.id = r.id
        /\ inflight' = inflight \cup {r}
        /\ UNCHANGED <<messages, idCounter, clock, last, issued, deleted, nDeleted,
                       written>>

Dispatch ==
    \E r \in inflight :
        /\ inflight' = inflight \ {r}
        /\ \/ r.op = "update" /\ RunUpdate(r)
           \/ r.op = "delete" /\ RunDelete(r)

NextRace ==
    \/ PostMessages
    \/ Receive
    \/ Dispatch

SpecRace == Init /\ [][NextRace]_vars

-----------------------------------------------------------------------------
(* Vocabulary of the properties, stated without the handlers' own guard *)

Absent(c) == c.t = "undefined"
NotAString(c) == c.t # "string"
\* a string that is empty once leading and trailing white space is removed
Blank(c) == c.t = "string" /\ \A i \in 1..Len(c.s) : c.s[i] \in WhiteSpace
Rejectable(c) == Absent(c) \/ NotAString(c) \/ Blank(c)

\* UTF-16 code units of the characters of a timestamp; the leading token,
\* which is the same in every timestamp, ranks lowest
CharCode(ch) ==
    CASE ch = "-" -> 45 [] ch = "." -> 46 [] ch = ":" -> 58 [] ch = "Z" -> 90
      [] ch = "0" -> 48 [] ch = "1" -> 49 [] ch = "2" -> 50 [] ch = "3" -> 51
      [] ch = "4" -> 52 [] ch = "5" -> 53 [] ch = "6" -> 54 [] ch = "7" -> 55
      [] ch = "8" -> 56 [] ch = "9" -> 57 [] OTHER -> 0

\* a <= b in the order of strings (the order in which ISO timestamps sort)
RECURSIVE StrLeq(_, _)
StrLeq(a, b) ==
    IF a = <<>> THEN TRUE
    ELSE IF b = <<>> THEN FALSE
    ELSE IF Head(a) = Head(b) THEN StrLeq(Tail(a), Tail(b))
    ELSE CharCode(Head(a)) < CharCode(Head(b))

Stored == {messages[i].value : i \in 1..Len(messages)}
OnId == {"get", "update", "delete"}

-----------------------------------------------------------------------------
(* C1 *)

\* C1, as stated: once a delete of an id has answered 204, every later get,
\* update and delete of that id answers 404, whatever the request body.
C1_AnyBodyNotFound ==
    [][(last'.op \in OnId /\ last'.id \in deleted) => last'.code = 404]_vars

\* C1, amended: once a delete of an id has answered 204, every later get and
\* delete of that id, and every later update of it whose content passes
\* validation, answers 404; no later request on that id succeeds.
C1_DeletedIdNotFound ==
    [][(last'.op \in OnId /\ last'.id \in deleted) =>
          /\ last'.code \notin {200, 204}
          /\ (last'.op \in {"get", "delete"} \/ ~Rejectable(last'.content)) =>
                 last'.code = 404]_vars

\* an update with accepted content of a deleted id answered 404, after
\* another message had been created in between
C1_Witness ==
    /\ last.op = "update" /\ ~Rejectable(last.content)
    /\ last.id \in deleted /\ last.code = 404
    /\ Len(messages) > 0

-----------------------------------------------------------------------------
(* C2 *)

\* C2: an update answers 400 when its content is absent, not a string or
\* blank, whether or not the id is in the Map; with accepted content it
\* answers 404 exactly when the id is not in the Map.  (Violated: an update
\* whose request has no body, or the body null, has no content, and the
\* handler throws on the destructuring instead of answering 400.)
C2_ValidationBeforeLookup ==
    [][last'.op = "update" =>
          /\ Rejectable(last'.content) => last'.code = 400
          /\ ~Rejectable(last'.content) =>
                (last'.code = 404 <=> ~MapHas(messages, last'.id))]_vars

-----------------------------------------------------------------------------
(* C3 *)

\* C3: every stored message has createdAt <= updatedAt, and the message a
\* create has just stored has the two equal.
C3_UpdatedNotBeforeCreated ==
    /\ \A m \in Stored : StrLeq(m.createdAt, m.updatedAt)
    /\ (last.op = "create" /\ last.code = 201) =>
           /\ MapHas(messages, last.body.items[1].id)
           /\ LET m == MapGet(messages, last.body.items[1].id)
              IN  m.createdAt = m.updatedAt

\* a stored message was updated at a later instant than it was created
C3_Witness ==
    \E m \in Stored : m.createdAt # m.updatedAt /\ StrLeq(m.createdAt, m.updatedAt)

-----------------------------------------------------------------------------
(* C4 *)

\* C4: the ids returned by creates are pairwise distinct, deleted ones
\* included, and so are the ids of the stored messages.
C4_IdsDistinct ==
    /\ \A i, j \in 1..Len(issued) : issued[i].id = issued[j].id => i = j
    /\ \A i, j \in 1..Len(messages) :
          (messages[i].key = messages[j].key
              \/ messages[i].value.id = messages[j].value.id) => i = j

\* two creates in the same clock instant, the second after the first
\* message had been deleted
C4_Witness ==
    /\ Len(issued) = 2
    /\ issued[1].now = issued[2].now
    /\ issued[1].id \in deleted
    /\ MapHas(messages, issued[2].id)

-----------------------------------------------------------------------------
(* C5 *)

\* C5: a request that fails (answered 400 or 404, or whose handler throws)
\* leaves the Map as it was.
C5_FailureLeavesStore ==
    [][last'.code \in {400, 404, 500} => messages' = messages]_vars

\* an update with blank content of a stored message answered 400
C5_Witness ==
    /\ last.op = "update" /\ Blank(last.content) /\ last.content.s # <<>>
    /\ last.code = 400 /\ MapHas(messages, last.id)

-----------------------------------------------------------------------------
(* C6 *)

\* C6: a create answers 400 with an error body when its content is absent,
\* not a string or blank, and 201 otherwise.  (Violated: a create whose
\* request has no body, or the body null, has no content, and the handler
\* throws on the destructuring instead of answering 400.)
C6_CreateValidation ==
    last.op = "create" =>
        IF Rejectable(last.content)
        THEN last.code = 400 /\ last.body.kind = "error" /\ last.body.error # <<>>
        ELSE last.code = 201

-----------------------------------------------------------------------------
(* C7 *)

\* C7: an update answered 200 stores the new content under the id and
\* returns the stored message, keeps the message's id and createdAt, and
\* changes no other entry; every stored message has the id and createdAt
\* its create returned.
C7_UpdateFrame ==
    /\ [][(last'.op = "update" /\ last'.code = 200) =>
             /\ MapHas(messages, last'.id) /\ MapHas(messages', last'.id)
             /\ MapGet(messages', last'.id).content = last'.content
             /\ last'.body = MessageBody(MapGet(messages', last'.id))
             /\ MapGet(messages', last'.id).id = MapGet(messages, last'.id).id
             /\ MapGet(messages', last'.id).createdAt
                   = MapGet(messages, last'.id).createdAt
             /\ Len(messages') = Len(messages)
             /\ \A i \in 1..Len(messages) :
                   messages[i].key # last'.id => messages'[i] = messages[i]]_vars
    /\ [](\A m \in Stored :
             \E i \in 1..Len(issued) :
                 issued[i].id = m.id /\ issued[i].createdAt = m.createdAt)

\* an update of one of two stored messages answered 200 at a later instant
\* than the message was created
C7_Witness ==
    /\ last.op = "update" /\ last.code = 200
    /\ Len(messages) = 2
    /\ last.body.items[1].createdAt # last.body.items[1].updatedAt

-----------------------------------------------------------------------------
(* C8, under SpecRace *)

\* C8: with updates and deletes of one id in flight together, the handler
\* that ran last decides: after an update answered 200 the Map holds its
\* content, an update of a deleted id answers 404 and never 200, and no id
\* whose delete answered 204 is in the Map.
C8_HandlersIndivisible ==
    /\ \A id \in deleted : ~MapHas(messages, id)
    /\ (last.op = "update" /\ last.code = 200) =>
           /\ MapHas(messages, last.id)
           /\ MapGet(messages, last.id).content = last.content
    /\ (last.op = "update" /\ last.id \in deleted) => last.code = 404

\* a delete answered 204 while two updates of the same id were still
\* waiting to run
C8_Witness ==
    /\ last.op = "delete" /\ last.code = 204
    /\ Cardinality({q \in inflight : q.op = "update" /\ q.id = last.id}) = 2

-----------------------------------------------------------------------------
(* C9 *)

\* C9: the content of every stored message is a string that is not blank.
C9_StoredContentNotBlank ==
    \A m \in Stored : m.content.t = "string" /\ ~Blank(m.content)

\* a stored message whose content begins and ends with white space
C9_Witness ==
    \E m \in Stored : m.content.s # Trim(m.content.s)

-----------------------------------------------------------------------------
(* C10 *)

\* C10: a list answers 200 with as many messages as creates have succeeded
\* minus deletes that have succeeded, which is the size of the Map.
C10_ListCount ==
    /\ Len(messages) = Len(issued) - nDeleted
    /\ last.op = "list" =>
          /\ last.code = 200 /\ last.body.kind = "list"
          /\ Len(last.body.items) = Len(issued) - nDeleted

\* a list after two creates and one delete returned one message
C10_Witness ==
    /\ last.op = "list" /\ Len(issued) = 2 /\ nDeleted = 1
    /\ Len(last.body.items) = 1

-----------------------------------------------------------------------------
(* C11 *)

\* C11: when the clock has advanced since it was last read, an update
\* answered 200 leaves the message with an updatedAt different from the
\* one it had before.
C11_UpdatedAtChanges ==
    [][(last'.op = "update" /\ last'.code = 200 /\ clock' > clock) =>
          MapGet(messages', last'.id).updatedAt
              # MapGet(messages, last'.id).updatedAt]_vars

\* an update answered 200 at a later instant than the message's create;
\* the returned updatedAt is not the createdAt
C11_Witness ==
    /\ last.op = "update" /\ last.code = 200
    /\ clock > StartMs
    /\ last.body.items[1].createdAt = ToISOString(StartMs)
    /\ last.body.items[1].updatedAt = ToISOString(clock)

-----------------------------------------------------------------------------
(* C12 *)

\* C12: a create answered 201 appends one entry to the Map, under an id
\* that was not a key before, whose value is the returned message with all
\* four fields; the entries that were there are unchanged.
C12_CreateFrame ==
    [][(last'.op = "create" /\ last'.code = 201) =>
          /\ last'.body.kind = "message" /\ Len(last'.body.items) = 1
          /\ LET message == last'.body.items[1] IN
             /\ ~MapHas(messages, message.id)
             /\ message.id # <<>>
             /\ message.id \notin IssuedIds
             /\ message.content = last'.content
             /\ message.createdAt # <<>> /\ message.updatedAt # <<>>
             /\ messages' = Append(messages, [key |-> message.id, value |-> message])]_vars

\* a create answered 201 while another message was stored, in the same
\* clock instant as that message's create
C12_Witness ==
    /\ last.op = "create" /\ last.code = 201
    /\ Len(messages) = 2
    /\ issued[1].now = issued[2].now
    /\ messages[2].value = last.body.items[1]

-----------------------------------------------------------------------------
(* C13 *)

\* C13: a delete of a stored id answers 204 and removes that entry and no
\* other; a delete of an id that is not stored answers 404.
C13_DeleteFrame ==
    [][last'.op = "delete" =>
          IF MapHas(messages, last'.id)
          THEN /\ last'.code = 204
               /\ last'.body = EmptyBody
               /\ ~MapHas(messages', last'.id)
               /\ Len(messages') = Len(messages) - 1
               /\ \A i \in 1..Len(messages) :
                     messages[i].key # last'.id =>
                         \E j \in 1..Len(messages') : messages'[j] = messages[i]
          ELSE last'.code = 404 /\ last'.body = ErrorBody(NotFoundError)]_vars

\* a delete of the first of two stored messages answered 204 and the
\* second is still stored
C13_Witness ==
    /\ last.op = "delete" /\ last.code = 204
    /\ Len(issued) = 2 /\ last.id = issued[1].id
    /\ Len(messages) = 1 /\ messages[1].key = issued[2].id

-----------------------------------------------------------------------------
(* C14 *)

\* C14: a get of a stored id answers 200 with the message most recently
\* returned for that id by its create or by an update; a get of an id that
\* is not stored answers 404; a get leaves the Map as it was.
C14_GetReturnsLastWritten ==
    [][last'.op = "get" =>
          /\ messages' = messages
          /\ IF MapHas(messages, last'.id)
             THEN /\ last'.code = 200
                  /\ last'.body.kind = "message"
                  /\ last'.body.items[1].id = last'.id
                  /\ last'.body.items[1] \in written
             ELSE last'.code = 404 /\ last'.body = ErrorBody(NotFoundError)]_vars

\* a get answered 200 with a message that an update had rewritten
C14_Witness ==
    /\ last.op = "get" /\ last.code = 200
    /\ last.body.items[1].updatedAt # last.body.items[1].createdAt
    /\ last.body.items[1].content = Str(<<" ", "b", " ">>)

-----------------------------------------------------------------------------
(* C15 *)

NotDeleted(x) == x.id \notin deleted
\* the ids returned by creates and not deleted since, in creation order
LiveIds ==
    LET live == SelectSeq(issued, NotDeleted)
    IN  [i \in 1..Len(live) |-> live[i].id]
IdsOf(list) == [i \in 1..Len(list) |-> list[i].id]

\* C15: the Map holds, and a list returns, the stored messages in the
\* order of their creation.
C15_ListInCreationOrder ==
    /\ IdsOf(Values(messages)) = LiveIds
    /\ last.op = "list" => IdsOf(last.body.items) = LiveIds

\* a list returned two messages, the first of which had been updated
\* after the second was created
C15_Witness ==
    /\ last.op = "list" /\ Len(last.body.items) = 2
    /\ last.body.items[1].id = issued[1].id
    /\ last.body.items[1].updatedAt # last.body.items[1].createdAt
    /\ last.body.items[2].updatedAt = last.body.items[2].createdAt
    /\ last.body.items[2].createdAt = ToISOString(StartMs)

-----------------------------------------------------------------------------
(* C16 *)

\* C16: the message a create returns has createdAt equal to updatedAt,
\* both the timestamp of one instant, read after the id was generated.
C16_CreatedEqualsUpdated ==
    (last.op = "create" /\ last.code = 201) =>
        /\ last.body.items[1].createdAt = last.body.items[1].updatedAt
        /\ \E t \in issued[Len(issued)].now .. clock :
              last.body.items[1].createdAt = ToISOString(t)

\* a create answered 201 whose id was generated in one clock instant and
\* whose timestamp was taken in the next
C16_Witness ==
    /\ last.op = "create" /\ last.code = 201
    /\ issued[Len(issued)].now = StartMs
    /\ last.body.items[1].createdAt = ToISOString(StartMs + 1)

-----------------------------------------------------------------------------
(* C17 *)

\* C17: a create answered 201 and an update answered 200 return and store
\* the content exactly as it was sent.
C17_ContentUntrimmed ==
    ((last.op = "create" /\ last.code = 201) \/ (last.op = "update" /\ last.code = 200)) =>
        /\ last.body.items[1].content = last.content
        /\ MapHas(messages, last.body.items[1].id)
        /\ MapGet(messages, last.body.items[1].id).content = last.content

\* a create stored content that begins and ends with white space
C17_Witness ==
    /\ last.op = "create" /\ last.code = 201
    /\ last.content.s # Trim(last.content.s)
    /\ MapGet(messages, last.body.items[1].id).content.s = <<" ", "b", " ">>

-----------------------------------------------------------------------------
(* C18 *)

\* C18: every entry of the Map is keyed by the id of the message it holds,
\* and every id returned by a create and not deleted since is a key of the
\* Map, under which the message with that id is found.
C18_KeyedById ==
    /\ \A i \in 1..Len(messages) : messages[i].key = messages[i].value.id
    /\ \A i \in 1..Len(issued) :
          issued[i].id \notin deleted =>
              /\ MapHas(messages, issued[i].id)
              /\ MapGet(messages, issued[i].id).id = issued[i].id

\* two stored messages, one of them rewritten by an update
C18_Witness ==
    /\ Len(messages) = 2
    /\ last.op = "update" /\ last.code = 200
    /\ messages[2].key = last.id

-----------------------------------------------------------------------------
(* C19 *)

\* C19: an update answered 200 leaves the number of entries and the order
\* of their ids as they were.
C19_UpdateKeepsOrder ==
    [][(last'.op = "update" /\ last'.code = 200) =>
          /\ Len(messages') = Len(messages)
          /\ IdsOf(Values(messages')) = IdsOf(Values(messages))
          /\ \A i \in 1..Len(messages) : messages'[i].key = messages[i].key]_vars

\* an update of the first of two stored messages answered 200
C19_Witness ==
    /\ last.op = "update" /\ last.code = 200
    /\ Len(messages) = 2
    /\ messages[1].key = last.id
    /\ messages[1].value.content = last.content

-----------------------------------------------------------------------------
(* C20 *)

\* the characters of an id after its last "-"
RECURSIVE AfterDash(_)
AfterDash(chars) ==
    IF \E i \in 1..Len(chars) : chars[i] = "-" THEN AfterDash(Tail(chars)) ELSE chars

DigitValue(ch) == CHOOSE d \in 0..9 : Digits[d + 1] = ch

RECURSIVE ParseNum(_)
ParseNum(chars) ==
    IF chars = <<>> THEN 0
    ELSE 10 * ParseNum(SubSeq(chars, 1, Len(chars) - 1)) + DigitValue(chars[Len(chars)])

CounterOf(id) == ParseNum(AfterDash(id))

\* C20: idCounter changes only in a create answered 201, and then by one;
\* it equals the number of creates answered 201; the counter suffixes of
\* the ids returned grow with the order of creation.
C20_CounterCountsCreates ==
    /\ [][idCounter' # idCounter =>
             (last'.op = "create" /\ last'.code = 201 /\ idCounter' = idCounter + 1)]_vars
    /\ [][(last'.op = "create" /\ last'.code = 201) =>
             idCounter' = idCounter + 1]_vars
    /\ [](idCounter = Len(issued))
    /\ [](\A i, j \in 1..Len(issued) :
             i < j => CounterOf(issued[i].id) < CounterOf(issued[j].id))

\* after two creates answered 201 and a delete, a create was rejected and
\* the counter is still two
C20_Witness ==
    /\ last.op = "create" /\ last.code = 400
    /\ idCounter = 2 /\ nDeleted = 1
    /\ CounterOf(issued[2].id) = 1

====
